---- MODULE Spec2Model ----
(***************************************************************************)
(* Model of loaders.py: the YouTube identifier extractor                   *)
(* (_extract_youtube_id) and the transcript loader (carrega_youtube).      *)
(*                                                                         *)
(* A Python str is a sequence of one-character strings, so that the        *)
(* string operations of the source (strip, lower, replace, split, lstrip,  *)
(* the regular expressions, urlparse, parse_qs) are computed character by  *)
(* character as the source computes them.                                  *)
(***************************************************************************)
EXTENDS Integers, Sequences, FiniteSets, TLC

(***************************************************************************)
(* Characters                                                              *)
(***************************************************************************)
LowerLetters == <<"a","b","c","d","e","f","g","h","i","j","k","l","m",
                  "n","o","p","q","r","s","t","u","v","w","x","y","z">>

UpperLetters == <<"A","B","C","D","E","F","G","H","I","J","K","L","M",
                  "N","O","P","Q","R","S","T","U","V","W","X","Y","Z">>

DigitChars == {"0","1","2","3","4","5","6","7","8","9"}

Range(f) == { f[i] : i \in DOMAIN f }

Letters == Range(LowerLetters) \cup Range(UpperLetters)

\* The character class [A-Za-z0-9_-] of the three regular expressions.
IdChars == Letters \cup DigitChars \cup {"_", "-"}

\* The {11} of the three regular expressions.
IdLen == 11

\* What str.strip() with no argument removes (the whitespace of the model).
Whitespace == {" ", "\n", "\t"}

\* urllib.parse.scheme_chars
SchemeChars == Letters \cup DigitChars \cup {"+", "-", "."}

(***************************************************************************)
(* Python str methods                                                      *)
(***************************************************************************)
RECURSIVE LStrip(_, _)
\* s.lstrip(chars)
LStrip(s, cs) ==
  IF s = <<>> \/ s[1] \notin cs THEN s ELSE LStrip(Tail(s), cs)

RECURSIVE RStrip(_, _)
\* s.rstrip(chars)
RStrip(s, cs) ==
  IF s = <<>> \/ s[Len(s)] \notin cs THEN s
  ELSE RStrip(SubSeq(s, 1, Len(s) - 1), cs)

\* s.strip()
Strip(s) == RStrip(LStrip(s, Whitespace), Whitespace)

\* s.startswith(p)
StartsWith(s, p) == Len(p) <= Len(s) /\ SubSeq(s, 1, Len(p)) = p

\* s.endswith(p)
EndsWith(s, p) ==
  Len(p) <= Len(s) /\ SubSeq(s, Len(s) - Len(p) + 1, Len(s)) = p

\* s[n:]
Drop(s, n) == SubSeq(s, n + 1, Len(s))

\* Index of the first character of s, at or after position from, that is in
\* cs; 0 when there is none (str.find, 1-based, for one-character needles).
Find(s, cs, from) ==
  LET hits == { i \in from..Len(s) : s[i] \in cs }
  IN  IF hits = {} THEN 0 ELSE CHOOSE i \in hits : \A j \in hits : i <= j

\* Index of the last occurrence of character c in s; 0 when there is none.
RFind(s, c) ==
  LET hits == { i \in 1..Len(s) : s[i] = c }
  IN  IF hits = {} THEN 0 ELSE CHOOSE i \in hits : \A j \in hits : i >= j

\* c in s
Contains(s, c) == \E i \in 1..Len(s) : s[i] = c

RECURSIVE Split(_, _)
\* s.split(c): the pieces of s between the occurrences of character c.
Split(s, c) ==
  LET i == Find(s, {c}, 1)
  IN  IF i = 0 THEN <<s>>
      ELSE <<SubSeq(s, 1, i - 1)>> \o Split(Drop(s, i), c)

\* s.split(c, 1)
Split1(s, c) ==
  LET i == Find(s, {c}, 1)
  IN  IF i = 0 THEN <<s>> ELSE <<SubSeq(s, 1, i - 1), Drop(s, i)>>

RECURSIVE Replace(_, _, _)
\* s.replace(old, new): every non-overlapping occurrence, left to right.
Replace(s, old, new) ==
  IF s = <<>> THEN <<>>
  ELSE IF StartsWith(s, old) THEN new \o Replace(Drop(s, Len(old)), old, new)
  ELSE <<s[1]>> \o Replace(Tail(s), old, new)

LowerChar(c) ==
  IF \E i \in 1..26 : UpperLetters[i] = c
  THEN LowerLetters[CHOOSE i \in 1..26 : UpperLetters[i] = c]
  ELSE c

\* s.lower()
Lower(s) == [i \in 1..Len(s) |-> LowerChar(s[i])]

RECURSIVE Join(_, _)
\* sep.join(parts)
Join(sep, parts) ==
  IF parts = <<>> THEN <<>>
  ELSE IF Len(parts) = 1 THEN parts[1]
  ELSE parts[1] \o sep \o Join(sep, Tail(parts))

(***************************************************************************)
(* Regular expressions of the source                                       *)
(***************************************************************************)
\* re.fullmatch(r"[A-Za-z0-9_-]{11}", s)
FullMatchId(s) == Len(s) = IdLen /\ \A i \in 1..Len(s) : s[i] \in IdChars

\* re.match(r"^/(shorts|live)/([A-Za-z0-9_-]{11})", path): the match object
\* is reduced to group(2); <<>> stands for None.  re.match anchors the start
\* of the pattern only, so characters may follow the eleven matched ones.
ShortsPrefix == <<"/","s","h","o","r","t","s","/">>

LivePrefix == <<"/","l","i","v","e","/">>

MatchAfterPrefix(path, prefix) ==
  /\ StartsWith(path, prefix)
  /\ Len(path) >= Len(prefix) + IdLen
  /\ \A i \in (Len(prefix) + 1)..(Len(prefix) + IdLen) : path[i] \in IdChars

MatchShortsLive(path) ==
  IF MatchAfterPrefix(path, ShortsPrefix)
  THEN SubSeq(path, Len(ShortsPrefix) + 1, Len(ShortsPrefix) + IdLen)
  ELSE IF MatchAfterPrefix(path, LivePrefix)
  THEN SubSeq(path, Len(LivePrefix) + 1, Len(LivePrefix) + IdLen)
  ELSE <<>>

(***************************************************************************)
(* urllib.parse, as called by the source                                   *)
(***************************************************************************)
\* The scheme urlsplit splits off: url[:i] for the first ":" at i > 0, when
\* url[0] is a letter and every character before the ":" is a scheme
\* character; <<>> otherwise.
SchemeEnd(url) ==
  LET i == Find(url, {":"}, 1)
  IN  IF /\ i > 1
         /\ url[1] \in Letters
         /\ \A k \in 1..(i - 1) : url[k] \in SchemeChars
      THEN i ELSE 0

\* urllib.parse.uses_params, restricted to the schemes of the inputs of the
\* model: "" (no scheme), "http" and "https".
S_http == <<"h","t","t","p">>

S_https == <<"h","t","t","p","s">>

UsesParams == { <<>>, S_http, S_https }

\* urllib.parse._splitparams(url)[0]
SplitParamsPath(url) ==
  LET i == Find(url, {";"}, IF Contains(url, "/") THEN RFind(url, "/") ELSE 1)
  IN  IF i = 0 THEN url ELSE SubSeq(url, 1, i - 1)

\* urllib.parse.urlparse(s): the record of scheme, netloc, path and query
\* (the fields the source reads), or ok = FALSE where urlsplit raises
\* ValueError("Invalid IPv6 URL"): a netloc with one of "[" and "]" and not
\* the other.  The inputs of the model hold no tab, CR or LF inside the URL
\* and no netloc with both brackets.
UrlParse(s) ==
  LET se     == SchemeEnd(s)
      scheme == IF se = 0 THEN <<>> ELSE Lower(SubSeq(s, 1, se - 1))
      url1   == IF se = 0 THEN s ELSE Drop(s, se)
      hasNet == StartsWith(url1, <<"/", "/">>)
      delim  == Find(url1, {"/", "?", "#"}, 3)
      netloc == IF ~hasNet THEN <<>>
                ELSE IF delim = 0 THEN Drop(url1, 2)
                ELSE SubSeq(url1, 3, delim - 1)
      url2   == IF ~hasNet THEN url1
                ELSE IF delim = 0 THEN <<>>
                ELSE Drop(url1, delim - 1)
      url3   == Split1(url2, "#")[1]
      parts  == Split1(url3, "?")
      query  == IF Len(parts) = 2 THEN parts[2] ELSE <<>>
      path   == IF scheme \in UsesParams /\ Contains(parts[1], ";")
                THEN SplitParamsPath(parts[1]) ELSE parts[1]
  IN  IF Contains(netloc, "[") # Contains(netloc, "]")
      THEN [ok |-> FALSE, scheme |-> scheme, netloc |-> netloc,
            path |-> <<>>, query |-> <<>>]
      ELSE [ok |-> TRUE, scheme |-> scheme, netloc |-> netloc,
            path |-> path, query |-> query]

\* The percent escapes urllib.parse.unquote decodes, restricted to the
\* escapes that occur in the inputs of the model: %26 is "&", %51 is "Q",
\* %20 is " ".
PercentEscapes == { <<"2","6">>, <<"5","1">>, <<"2","0">> }

PercentDecode(hex) ==
  IF hex = <<"2","6">> THEN "&" ELSE IF hex = <<"5","1">> THEN "Q" ELSE " "

RECURSIVE Unquote(_)
\* urllib.parse.unquote(s)
Unquote(s) ==
  IF s = <<>> THEN <<>>
  ELSE IF s[1] = "%" /\ Len(s) >= 3 /\ SubSeq(s, 2, 3) \in PercentEscapes
  THEN <<PercentDecode(SubSeq(s, 2, 3))>> \o Unquote(Drop(s, 3))
  ELSE <<s[1]>> \o Unquote(Tail(s))

\* unquote(x.replace("+", " ")) of parse_qsl
UnquotePlus(s) == Unquote(Replace(s, <<"+">>, <<" ">>))

RECURSIVE ParseQsl(_)
\* urllib.parse.parse_qsl applied to the "&"-separated fields: a field
\* without "=" or with an empty value is dropped (keep_blank_values is
\* False); the others yield the decoded <<name, value>>, in order.
ParseQsl(fields) ==
  IF fields = <<>> THEN <<>>
  ELSE LET nv == Split1(fields[1], "=")
       IN  (IF Len(nv) = 2 /\ Len(nv[2]) > 0
            THEN << <<UnquotePlus(nv[1]), UnquotePlus(nv[2])>> >>
            ELSE <<>>) \o ParseQsl(Tail(fields))

\* urllib.parse.parse_qs(query)[name] as the sequence of the values of
\* name; <<>> when name is not a key of the result.
ParseQsValues(query, name) ==
  LET pairs == IF query = <<>> THEN <<>> ELSE ParseQsl(Split(query, "&"))
  IN  SelectSeq(pairs, LAMBDA p : p[1] = name)

(***************************************************************************)
(* _extract_youtube_id                                                     *)
(***************************************************************************)
WwwDot == <<"w","w","w",".">>

YoutubeCom == <<"y","o","u","t","u","b","e",".","c","o","m">>

YoutuBe == <<"y","o","u","t","u",".","b","e">>

WatchPath == <<"/","w","a","t","c","h">>

\* host = (u.netloc or "").lower().replace("www.", "")
NormalizeHost(netloc) == Replace(Lower(netloc), WwwDot, <<>>)

\* The outcomes of _extract_youtube_id: a returned identifier, or one of the
\* two ValueErrors it raises.
Returned(vid) == [ok |-> TRUE, id |-> vid, error |-> "none"]

Raised(e) == [ok |-> FALSE, id |-> <<>>, error |-> e]

\* raise ValueError("URL do YouTube invalida.")
ErrMalformedUrl == "ValueError: URL do YouTube invalida."

\* raise ValueError("Nao consegui extrair um ID de video valido do link
\* informado.")
ErrNoIdentifier ==
  "ValueError: Nao consegui extrair um ID de video valido do link informado."

\* A faulty watch rule, which reads the last value of v (qs["v"][-1]) and
\* not the first; C7 does not hold of it.
WatchRuleLastValue(path, query) ==
  LET vs  == ParseQsValues(query, <<"v">>)
      vid == IF vs = <<>> THEN <<>> ELSE Split(vs[Len(vs)][2], "&")[1]
  IN  IF path = WatchPath /\ vs # <<>> /\ FullMatchId(vid) THEN vid ELSE <<>>

\* The watch rule: qs["v"][0].split("&")[0] when path == "/watch" and "v" is
\* in qs, kept when it matches the identifier pattern; <<>> otherwise.
WatchRule(path, query) ==
  LET vs  == ParseQsValues(query, <<"v">>)
      vid == IF vs = <<>> THEN <<>> ELSE Split(vs[1][2], "&")[1]
  IN  IF path = WatchPath /\ vs # <<>> /\ FullMatchId(vid) THEN vid ELSE <<>>

\* A faulty youtu.be rule, which returns the first path segment without
\* matching it against the identifier pattern; C10 does not hold of it.
ShortLinkRuleUnchecked(path) == Split(LStrip(path, {"/"}), "/")[1]

\* The youtu.be rule: path.lstrip("/").split("/")[0], kept when it matches
\* the identifier pattern.
ShortLinkRule(path) ==
  LET vid == Split(LStrip(path, {"/"}), "/")[1]
  IN  IF FullMatchId(vid) THEN vid ELSE <<>>

\* _extract_youtube_id(url_or_id)
ExtractYoutubeId(url_or_id) ==
  LET s    == Strip(url_or_id)
      u    == UrlParse(s)
      host == NormalizeHost(u.netloc)
  IN  IF FullMatchId(s) THEN Returned(s)
      ELSE IF ~u.ok THEN Raised(ErrMalformedUrl)
      ELSE IF EndsWith(host, YoutubeCom) /\ WatchRule(u.path, u.query) # <<>>
      THEN Returned(WatchRule(u.path, u.query))
      ELSE IF EndsWith(host, YoutubeCom) /\ MatchShortsLive(u.path) # <<>>
      THEN Returned(MatchShortsLive(u.path))
      ELSE IF host = YoutuBe /\ ShortLinkRule(u.path) # <<>>
      THEN Returned(ShortLinkRule(u.path))
      ELSE Raised(ErrNoIdentifier)

(***************************************************************************)
(* The inputs of the model: strings put together from a padding, a scheme  *)
(* prefix, a host, a path and a query, and bare strings.                   *)
(***************************************************************************)
\* Two identifiers of the pattern, 12- and 10-character near misses.
Id1 == <<"d","Q","w","4","w","9","W","g","X","c","Q">>

Id2 == <<"a","-","b","_","c","0","d","1","e","2","Z">>

Id1Long == Id1 \o <<"X">>

Id1Short == SubSeq(Id1, 1, IdLen - 1)

\* Paddings: <<left, right>> whitespace around the input.
PadNone == << <<>>, <<>> >>

PadSpaces == << <<" ">>, <<" ","\n">> >>

Paddings == {PadNone, PadSpaces}

\* Scheme prefixes.
NoScheme == <<>>

SchemeHttps == <<"h","t","t","p","s",":","/","/">>

SchemeHttp == <<"h","t","t","p",":","/","/">>

SchemeUpper == <<"H","T","T","P","S",":","/","/">>

SchemeRelative == <<"/","/">>

SchemePrefixes ==
  {NoScheme, SchemeHttps, SchemeHttp, SchemeUpper, SchemeRelative}

\* Hosts (the netloc of the URL).
HostWww == <<"w","w","w",".","y","o","u","t","u","b","e",".","c","o","m">>

HostBare == <<"y","o","u","t","u","b","e",".","c","o","m">>

HostMobile == <<"m",".","y","o","u","t","u","b","e",".","c","o","m">>

HostMixedCase == <<"W","W","W",".","Y","o","u","T","u","b","e",".","c","o","m">>

HostPort == <<"w","w","w",".","y","o","u","t","u","b","e",".","c","o","m",":","4","4","3">>

HostWwwInside == <<"y","o","u","t","u","b","e",".","w","w","w",".","c","o","m">>

HostShort == <<"y","o","u","t","u",".","b","e">>

HostShortWww == <<"w","w","w",".","y","o","u","t","u",".","b","e">>

HostShortWwwInside == <<"y","o","u","w","w","w",".","t","u",".","b","e">>

HostOther == <<"e","x","a","m","p","l","e",".","c","o","m">>

HostBracket == <<"[","y","o","u","t","u",".","b","e">>

HostNone == <<>>

Hosts ==
  {HostWww, HostBare, HostMobile, HostMixedCase, HostPort, HostWwwInside,
   HostShort, HostShortWww, HostShortWwwInside, HostOther, HostBracket,
   HostNone}

\* Paths.
PathEmpty == <<>>

PathWatch == <<"/","w","a","t","c","h">>

PathWatchSlash == <<"/","w","a","t","c","h","/">>

PathWatchParams == <<"/","w","a","t","c","h",";","x">>

PathShorts == <<"/","s","h","o","r","t","s","/">> \o Id1

PathShorts12 == <<"/","s","h","o","r","t","s","/">> \o Id1Long

PathShortsMore == <<"/","s","h","o","r","t","s","/">> \o Id1 \o <<"/","x">>

PathShorts10 == <<"/","s","h","o","r","t","s","/">> \o Id1Short

PathLive == <<"/","l","i","v","e","/">> \o Id2

PathId == <<"/">> \o Id1

PathIdMore == <<"/">> \o Id1 \o <<"/","x">>

PathSlashSlashId == <<"/","/">> \o Id1

PathId12 == <<"/">> \o Id1Long

PathPlaylist == <<"/","p","l","a","y","l","i","s","t">>

PathEmbed == <<"/","e","m","b","e","d","/">> \o Id1

Paths ==
  {PathEmpty, PathWatch, PathWatchSlash, PathWatchParams, PathShorts,
   PathShorts12, PathShortsMore, PathShorts10, PathLive, PathId,
   PathIdMore, PathSlashSlashId, PathId12, PathPlaylist, PathEmbed}

\* Queries, with their "?" (and a fragment).
QueryNone == <<>>

QueryV == <<"?","v","=">> \o Id1

QueryVList == <<"?","v","=">> \o Id1 \o <<"&","l","i","s","t","=","P","L","x","y","z">>

QueryListV == <<"?","l","i","s","t","=","P","L","x","y","z","&","v","=">> \o Id1

QueryVV == <<"?","v","=">> \o Id1 \o <<"&","v","=">> \o Id2

QueryBlankV == <<"?","v","=","&","v","=">> \o Id1

QueryV12 == <<"?","v","=">> \o Id1Long

QueryList == <<"?","l","i","s","t","=","P","L","x","y","z">>

QueryVAmp == <<"?","v","=">> \o Id1 \o <<"%","2","6","x">>

QueryVEscaped == <<"?","v","=">> \o Id1Short \o <<"%","5","1">>

QueryVFragment == <<"?","v","=">> \o Id1 \o <<"#","t","=","1">>

QueryVPlus == <<"?","v","=">> \o Id1Short \o <<"+">>

Queries ==
  {QueryNone, QueryV, QueryVList, QueryListV, QueryVV, QueryBlankV,
   QueryV12, QueryList, QueryVAmp, QueryVEscaped, QueryVFragment,
   QueryVPlus}

\* The string of a URL-shaped input.
MakeInput(pad, scheme, host, path, query) ==
  pad[1] \o scheme \o host \o path \o query \o pad[2]

UrlInputs ==
  { MakeInput(pad, scheme, host, path, query) :
      pad \in Paddings, scheme \in SchemePrefixes, host \in Hosts,
      path \in Paths, query \in Queries }

\* Bare strings: identifiers, near misses, the empty string.
BareInputs ==
  { pad[1] \o s \o pad[2] :
      pad \in Paddings, s \in {Id1, Id2, Id1Long, Id1Short, <<>>} }

ExtractInputs == UrlInputs \cup BareInputs

\* The inputs of carrega_youtube in the model: a bare identifier, a padded
\* watch URL with a trailing parameter, a short link, a shorts path, and
\* three inputs _extract_youtube_id rejects.
LoadInputs ==
  { Id1,
    MakeInput(PadSpaces, SchemeHttps, HostWww, PathWatch, QueryVList),
    MakeInput(PadNone, SchemeHttps, HostShort, PathId, QueryNone),
    MakeInput(PadNone, SchemeHttp, HostMobile, PathLive, QueryNone),
    MakeInput(PadNone, SchemeHttps, HostWww, PathPlaylist, QueryList),
    MakeInput(PadNone, SchemeHttps, HostBracket, PathId, QueryNone),
    <<>> }

(***************************************************************************)
(* The transcript service (YouTubeTranscriptApi.get_transcript)            *)
(***************************************************************************)
\* Bounds of the transcripts the service returns in the model.
MaxTextLen == 1

MaxLines == 2

TextChars == {"a", " "}

Texts == UNION { [1..n -> TextChars] : n \in 0..MaxTextLen }

\* A caption record is a dict that holds a "text" key or does not.
NoTextKey == <<>>

Items == [{"text"} -> Texts] \cup {NoTextKey}

Transcripts == UNION { [1..n -> Items] : n \in 0..MaxLines }

\* The exception classes get_transcript raises in the model: the five of
\* youtube_transcript_api._errors the source names, and two others.
ExceptionTypes ==
  { "TranscriptsDisabled", "NoTranscriptFound", "NoTranscriptAvailable",
    "VideoUnavailable", "InvalidVideoId", "TooManyRequests",
    "ConnectionError" }

(***************************************************************************)
(* carrega_youtube                                                         *)
(***************************************************************************)
VARIABLES
  input,       \* the argument url_ou_id (carrega_youtube) or url_or_id
  pc,          \* the position in carrega_youtube
  video_id,    \* the local video_id
  lang,        \* index in idiomas of the loop variable lang
  transcript,  \* the local transcript: <<>> is None, <<t>> the list t
  last_err,    \* the class name of the local last_err, "None" for None
  fetches,     \* the calls of get_transcript made so far, in order
  result,      \* what carrega_youtube returned or raised
  ret          \* what a direct call of _extract_youtube_id returned or raised

vars ==
  <<input, pc, video_id, lang, transcript, last_err, fetches, result, ret>>

idiomas == <<"pt-BR", "pt", "en">>

\* The messages of the RuntimeErrors of carrega_youtube (ASCII).
MsgTranscriptsDisabled ==
  "RuntimeError: As transcricoes estao desativadas para este video."

MsgNoTranscriptAvailable ==
  "RuntimeError: Este video nao possui transcricao disponivel (nem automatica)."

MsgVideoUnavailable ==
  "RuntimeError: Video indisponivel (privado, removido ou restrito)."

MsgInvalidVideoId ==
  "RuntimeError: ID de video invalido. Verifique se o link aponta para um VIDEO (nao playlist/canal)."

\* f"Nao foi possivel obter a transcricao: {type(last_err).__name__}": the
\* type name is the field name of the result.
MsgUnclassified == "RuntimeError: Nao foi possivel obter a transcricao: "

MsgEmptyTranscript == "RuntimeError: A transcricao retornou vazia."

LoaderTag == "youtube_transcript_api"

WatchUrlPrefix ==
  <<"h","t","t","p","s",":","/","/","w","w","w",".","y","o","u","t","u","b",
    "e",".","c","o","m","/","w","a","t","c","h","?","v","=">>

\* The outcome of carrega_youtube: nothing yet, an exception, a Document.
Pending ==
  [kind |-> "pending", error |-> "", name |-> "", page_content |-> <<>>,
   source |-> <<>>, video_id |-> <<>>, loader |-> ""]

RaisedError(msg, typename) ==
  [kind |-> "raised", error |-> msg, name |-> typename,
   page_content |-> <<>>, source |-> <<>>, video_id |-> <<>>, loader |-> ""]

\* A faulty Document, whose source is the bare identifier and not the watch
\* URL; C6 does not hold of it.
DocumentBareSource(text, vid) ==
  [kind |-> "returned", error |-> "", name |-> "", page_content |-> text,
   source |-> vid, video_id |-> vid, loader |-> LoaderTag]

\* Document(page_content=text, metadata={"source": ..., "video_id": ...,
\* "loader": ...})
Document(text, vid) ==
  [kind |-> "returned", error |-> "", name |-> "", page_content |-> text,
   source |-> WatchUrlPrefix \o vid, video_id |-> vid, loader |-> LoaderTag]

\* type(e).__name__
TypeName(e) == IF e = "None" THEN "NoneType" ELSE e

\* A faulty isinstance chain, whose no-transcript branch also takes
\* VideoUnavailable; C3 does not hold of it.
ClassifyWiderNotFound(e) ==
  IF e = "TranscriptsDisabled" THEN RaisedError(MsgTranscriptsDisabled, "")
  ELSE IF e \in {"NoTranscriptFound", "NoTranscriptAvailable",
                 "VideoUnavailable"}
  THEN RaisedError(MsgNoTranscriptAvailable, "")
  ELSE IF e = "InvalidVideoId" THEN RaisedError(MsgInvalidVideoId, "")
  ELSE RaisedError(MsgUnclassified, TypeName(e))

\* The isinstance chain over last_err when transcript is None.
Classify(e) ==
  IF e = "TranscriptsDisabled" THEN RaisedError(MsgTranscriptsDisabled, "")
  ELSE IF e \in {"NoTranscriptFound", "NoTranscriptAvailable"}
  THEN RaisedError(MsgNoTranscriptAvailable, "")
  ELSE IF e = "VideoUnavailable" THEN RaisedError(MsgVideoUnavailable, "")
  ELSE IF e = "InvalidVideoId" THEN RaisedError(MsgInvalidVideoId, "")
  ELSE RaisedError(MsgUnclassified, TypeName(e))

\* item.get("text", "")
ItemText(item) == IF "text" \in DOMAIN item THEN item["text"] ELSE <<>>

\* A faulty join, without the strip(); C4 does not hold of it.
TranscriptTextNoStrip(t) ==
  Join(<<"\n">>, [i \in 1..Len(t) |-> ItemText(t[i])])

\* "\n".join([item.get("text", "") for item in transcript]).strip()
TranscriptText(t) ==
  Strip(Join(<<"\n">>, [i \in 1..Len(t) |-> ItemText(t[i])]))

\* One call of get_transcript(video_id, languages=[lang]) and how it ended.
FetchRecord(l, vid, outcome, items, exc) ==
  [lang |-> l, video_id |-> vid, outcome |-> outcome, items |-> items,
   exc |-> exc]

Init ==
  /\ input \in LoadInputs
  /\ pc = "extract"
  /\ video_id = <<>>
  /\ lang = 1
  /\ transcript = <<>>
  /\ last_err = "None"
  /\ fetches = <<>>
  /\ result = Pending
  /\ ret = Raised("pending")

\* video_id = _extract_youtube_id(url_ou_id), when it returns.
ExtractReturns ==
  /\ pc = "extract"
  /\ ExtractYoutubeId(input).ok
  /\ video_id' = ExtractYoutubeId(input).id
  /\ pc' = "fetch"
  /\ UNCHANGED <<input, lang, transcript, last_err, fetches, result, ret>>

\* A faulty step, which swallows the ValueError and goes on to fetch with the
\* trimmed input as the identifier; C5 does not hold of it.
ExtractRaisesContinues ==
  /\ pc = "extract"
  /\ ~ExtractYoutubeId(input).ok
  /\ video_id' = Strip(input)
  /\ pc' = "fetch"
  /\ UNCHANGED <<input, lang, transcript, last_err, fetches, result, ret>>

\* video_id = _extract_youtube_id(url_ou_id), when it raises: the ValueError
\* leaves carrega_youtube.
ExtractRaises ==
  /\ pc = "extract"
  /\ ~ExtractYoutubeId(input).ok
  /\ result' = RaisedError(ExtractYoutubeId(input).error, "")
  /\ pc' = "done"
  /\ UNCHANGED <<input, video_id, lang, transcript, last_err, fetches, ret>>

\* A faulty step, without the break: the loop goes on to the next language
\* after a fetch returned; C1 does not hold of it.
FetchReturnsNoBreak(t) ==
  /\ pc = "fetch"
  /\ transcript' = <<t>>
  /\ fetches' = Append(fetches,
                  [lang |-> idiomas[lang], video_id |-> video_id,
                   outcome |-> "returned", items |-> <<t>>, exc |-> ""])
  /\ IF lang < Len(idiomas)
     THEN lang' = lang + 1 /\ pc' = "fetch"
     ELSE lang' = lang /\ pc' = "after_loop"
  /\ UNCHANGED <<input, video_id, last_err, result, ret>>

\* get_transcript(video_id, languages=[lang]) returns t: transcript = t and
\* break.
FetchReturns(t) ==
  /\ pc = "fetch"
  /\ transcript' = <<t>>
  /\ fetches' = Append(fetches,
                  FetchRecord(idiomas[lang], video_id, "returned", <<t>>, ""))
  /\ pc' = "after_loop"
  /\ UNCHANGED <<input, video_id, lang, last_err, result, ret>>

\* A faulty step, which keeps the first failure and not the last one; C2
\* does not hold of it.
FetchRaisesKeepFirst(e) ==
  /\ pc = "fetch"
  /\ last_err' = IF last_err = "None" THEN e ELSE last_err
  /\ fetches' = Append(fetches,
                  [lang |-> idiomas[lang], video_id |-> video_id,
                   outcome |-> "raised", items |-> <<>>, exc |-> e])
  /\ IF lang < Len(idiomas)
     THEN lang' = lang + 1 /\ pc' = "fetch"
     ELSE lang' = lang /\ pc' = "after_loop"
  /\ UNCHANGED <<input, video_id, transcript, result, ret>>

\* get_transcript(video_id, languages=[lang]) raises e: last_err = e and the
\* loop goes on to the next language, or ends after the last one.
FetchRaises(e) ==
  /\ pc = "fetch"
  /\ last_err' = e
  /\ fetches' = Append(fetches,
                  FetchRecord(idiomas[lang], video_id, "raised", <<>>, e))
  /\ IF lang < Len(idiomas)
     THEN lang' = lang + 1 /\ pc' = "fetch"
     ELSE lang' = lang /\ pc' = "after_loop"
  /\ UNCHANGED <<input, video_id, transcript, result, ret>>

\* if transcript is None: raise the RuntimeError of last_err's class.
RaiseNoTranscript ==
  /\ pc = "after_loop"
  /\ transcript = <<>>
  /\ result' = Classify(last_err)
  /\ pc' = "done"
  /\ UNCHANGED <<input, video_id, lang, transcript, last_err, fetches, ret>>

\* if not text: raise RuntimeError("A transcricao retornou vazia.")
RaiseEmpty ==
  /\ pc = "after_loop"
  /\ transcript # <<>>
  /\ TranscriptText(transcript[1]) = <<>>
  /\ result' = RaisedError(MsgEmptyTranscript, "")
  /\ pc' = "done"
  /\ UNCHANGED <<input, video_id, lang, transcript, last_err, fetches, ret>>

\* return Document(...)
ReturnDocument ==
  /\ pc = "after_loop"
  /\ transcript # <<>>
  /\ TranscriptText(transcript[1]) # <<>>
  /\ result' = Document(TranscriptText(transcript[1]), video_id)
  /\ pc' = "done"
  /\ UNCHANGED <<input, video_id, lang, transcript, last_err, fetches, ret>>

Next ==
  \/ ExtractReturns
  \/ ExtractRaises
  \/ \E t \in Transcripts : FetchReturns(t)
  \/ \E e \in ExceptionTypes : FetchRaises(e)
  \/ RaiseNoTranscript
  \/ RaiseEmpty
  \/ ReturnDocument

Spec == Init /\ [][Next]_vars

(***************************************************************************)
(* _extract_youtube_id called on its own                                   *)
(***************************************************************************)
InitExtract ==
  /\ input \in ExtractInputs
  /\ pc = "call"
  /\ video_id = <<>>
  /\ lang = 1
  /\ transcript = <<>>
  /\ last_err = "None"
  /\ fetches = <<>>
  /\ result = Pending
  /\ ret = Raised("pending")

CallExtract ==
  /\ pc = "call"
  /\ ret' = ExtractYoutubeId(input)
  /\ pc' = "called"
  /\ UNCHANGED <<input, video_id, lang, transcript, last_err, fetches, result>>

NextExtract == CallExtract

SpecExtract == InitExtract /\ [][NextExtract]_vars

(***************************************************************************)
(* Properties of carrega_youtube (specification Spec)                      *)
(***************************************************************************)
\* The fetches that returned a transcript, by position in the log.
ReturnedFetches == { k \in 1..Len(fetches) : fetches[k].outcome = "returned" }

AllThreeRaised ==
  Len(fetches) = 3 /\ \A k \in 1..3 : fetches[k].outcome = "raised"

\* The joined and trimmed text of the line texts of transcript t.
JoinedTrimmed(t) ==
  Strip(Join(<<"\n">>, [i \in 1..Len(t) |-> ItemText(t[i])]))

\* C1: the fetches are issued in the order pt-BR, pt, en, one language per
\* fetch and each language at most once; a fetch is issued only when every
\* earlier fetch raised (so none follows a fetch that returned); every fetch
\* carries the identifier extracted from the input, which matches the
\* identifier pattern; the transcript kept, and the content of the document
\* returned, is that of the one fetch that returned.
C1_FetchOrder ==
  /\ Len(fetches) <= 3
  /\ \A k \in 1..Len(fetches) :
       /\ fetches[k].lang = <<"pt-BR", "pt", "en">>[k]
       /\ \A j \in 1..(k - 1) : fetches[j].outcome = "raised"
       /\ fetches[k].video_id = video_id
       /\ Len(fetches[k].video_id) = 11
       /\ \A i \in 1..11 : fetches[k].video_id[i] \in IdChars
  /\ Cardinality(ReturnedFetches) <= 1
  /\ IF ReturnedFetches = {} THEN transcript = <<>>
     ELSE /\ ReturnedFetches = {Len(fetches)}
          /\ transcript = fetches[Len(fetches)].items
  /\ result.kind = "returned" =>
       /\ ReturnedFetches # {}
       /\ result.page_content =
            JoinedTrimmed(fetches[Len(fetches)].items[1])

\* C1 witness: pt-BR and pt raised, en returned, and the document is out.
C1_Witness ==
  /\ pc = "done"
  /\ Len(fetches) = 3
  /\ fetches[1].outcome = "raised"
  /\ fetches[2].outcome = "raised"
  /\ fetches[3].outcome = "returned"
  /\ result.kind = "returned"

\* The error expected for a last failure of class e, where invalidIdError
\* is the one expected for the class InvalidVideoId.
ExpectedError(e, invalidIdError) ==
  IF e = "TranscriptsDisabled" THEN RaisedError(MsgTranscriptsDisabled, "")
  ELSE IF e \in {"NoTranscriptFound", "NoTranscriptAvailable"}
  THEN RaisedError(MsgNoTranscriptAvailable, "")
  ELSE IF e = "VideoUnavailable" THEN RaisedError(MsgVideoUnavailable, "")
  ELSE IF e = "InvalidVideoId" THEN invalidIdError
  ELSE RaisedError(MsgUnclassified, e)

\* C2 as stated: when the three fetches raised, carrega_youtube raises the
\* error of the class of the last failure: TranscriptsDisabled, not-found,
\* VideoUnavailable, and for ANY other class (InvalidVideoId among them) the
\* unclassified error carrying the class name.
C2_Original ==
  (pc = "done" /\ AllThreeRaised) =>
    result = ExpectedError(fetches[3].exc,
                           RaisedError(MsgUnclassified, "InvalidVideoId"))

\* C2 amended: as C2, except that a last failure of class InvalidVideoId
\* yields the error "ID de video invalido ..." of its own, and only the
\* remaining classes yield the unclassified error carrying the class name.
\* Three TranscriptsDisabled failures yield the TranscriptsDisabled error.
C2_LastFailureClassified ==
  (pc = "done" /\ AllThreeRaised) =>
    /\ result = ExpectedError(fetches[3].exc,
                              RaisedError(MsgInvalidVideoId, ""))
    /\ (\A k \in 1..3 : fetches[k].exc = "TranscriptsDisabled") =>
         result.error = MsgTranscriptsDisabled

\* C2 witness: three failures of three classes, the last one InvalidVideoId.
C2_Witness ==
  /\ pc = "done"
  /\ AllThreeRaised
  /\ fetches[1].exc = "TranscriptsDisabled"
  /\ fetches[2].exc = "ConnectionError"
  /\ fetches[3].exc = "InvalidVideoId"
  /\ result.error = MsgInvalidVideoId

NotFoundTypes == {"NoTranscriptFound", "NoTranscriptAvailable"}

\* C3 as stated: the no-transcript error is raised only when each of the
\* three fetches failed because no transcript was found.
C3_Original ==
  result.error = MsgNoTranscriptAvailable =>
    /\ AllThreeRaised
    /\ \A k \in 1..3 : fetches[k].exc \in NotFoundTypes

\* C3 amended: the no-transcript error is raised only when the three fetches
\* failed and the last one (en) failed because no transcript was found; the
\* earlier two may have failed for any cause.
C3_LastNotFound ==
  result.error = MsgNoTranscriptAvailable =>
    /\ AllThreeRaised
    /\ fetches[3].exc \in NotFoundTypes

\* C3 witness: the no-transcript error after pt-BR failed for another cause.
C3_Witness ==
  /\ pc = "done"
  /\ result.error = MsgNoTranscriptAvailable
  /\ fetches[1].exc = "TranscriptsDisabled"
  /\ fetches[3].exc = "NoTranscriptFound"

\* Every character of every line text of t is whitespace (so is the text
\* joined by newlines, which then trims to the empty string).
OnlyWhitespace(t) ==
  \A i \in 1..Len(t) :
    \A j \in 1..Len(ItemText(t[i])) : ItemText(t[i])[j] \in {" ", "\n", "\t"}

\* C4: a document returned has non-empty content, and when a fetch returned
\* lines that are none or all whitespace, carrega_youtube ends with the
\* empty-transcript error.
C4_NoEmptyContent ==
  /\ result.kind = "returned" =>
       /\ result.page_content # <<>>
       /\ transcript # <<>> /\ ~OnlyWhitespace(transcript[1])
  /\ (pc = "done" /\ transcript # <<>> /\ OnlyWhitespace(transcript[1])) =>
       result = RaisedError(MsgEmptyTranscript, "")

\* C4 witness: two lines of whitespace were fetched and the error is out.
C4_Witness ==
  /\ pc = "done"
  /\ transcript # <<>>
  /\ Len(transcript[1]) = 2
  /\ ItemText(transcript[1][1]) = <<" ">>
  /\ ItemText(transcript[1][2]) = <<" ">>
  /\ result.error = MsgEmptyTranscript

\* The inputs of LoadInputs that hold no identifier, and the one urlparse
\* rejects.
NoIdLoadInputs ==
  { MakeInput(PadNone, SchemeHttps, HostWww, PathPlaylist, QueryList), <<>> }

MalformedLoadInputs ==
  { MakeInput(PadNone, SchemeHttps, HostBracket, PathId, QueryNone) }

\* C5: on an input from which no identifier is extracted, carrega_youtube
\* issues no fetch and ends with the ValueError of _extract_youtube_id as
\* it is; a fetch is issued only for an input whose identifier was extracted.
C5_InvalidIdentifierPropagates ==
  /\ input \in NoIdLoadInputs \cup MalformedLoadInputs =>
       /\ fetches = <<>>
       /\ pc = "done" =>
            result = RaisedError(IF input \in MalformedLoadInputs
                                 THEN ErrMalformedUrl ELSE ErrNoIdentifier, "")
  /\ fetches # <<>> =>
       /\ input \notin NoIdLoadInputs \cup MalformedLoadInputs
       /\ video_id \in {Id1, Id2}

\* C5 witness: the playlist link ended with the ValueError, with no fetch.
C5_Witness ==
  /\ pc = "done"
  /\ input = MakeInput(PadNone, SchemeHttps, HostWww, PathPlaylist, QueryList)
  /\ result.error = ErrNoIdentifier
  /\ fetches = <<>>

\* C6: a document returned holds the line texts of the fetch that returned,
\* in order, joined by newlines and trimmed; its video_id is the identifier
\* of the input, its source "https://www.youtube.com/watch?v=" followed by
\* that identifier, its loader the fixed tag; so it is when only en (the
\* third fetch) returned, whatever the first two raised.
C6_DocumentFields ==
  result.kind = "returned" =>
    LET id == IF input = MakeInput(PadNone, SchemeHttp, HostMobile, PathLive,
                                   QueryNone)
              THEN Id2 ELSE Id1
    IN  /\ ReturnedFetches # {}
        /\ \A k \in ReturnedFetches :
             result.page_content = JoinedTrimmed(fetches[k].items[1])
        /\ result.video_id = id
        /\ result.source = SchemeHttps \o HostWww \o PathWatch
                             \o <<"?", "v", "=">> \o id
        /\ result.loader = "youtube_transcript_api"

\* C6 witness: only en returned, two lines, after two different failures.
C6_Witness ==
  /\ pc = "done"
  /\ result.kind = "returned"
  /\ Len(fetches) = 3
  /\ fetches[1].exc = "TranscriptsDisabled"
  /\ fetches[2].exc = "ConnectionError"
  /\ result.page_content = <<"a", "\n", "a">>
  /\ result.video_id = Id1

(***************************************************************************)
(* Properties of _extract_youtube_id (specification SpecExtract)           *)
(***************************************************************************)
\* The parts of the trimmed input as a URL.
InputUrl == UrlParse(Strip(input))

\* The host as the specification normalizes it: lower-cased, and a leading
\* "www." (and nothing else) removed.
LeadingWwwStripped(netloc) ==
  IF StartsWith(Lower(netloc), WwwDot)
  THEN Drop(Lower(netloc), Len(WwwDot)) ELSE Lower(netloc)

\* The watch URLs of the inputs: an http(s) scheme, a host of youtube.com
\* with no port, the path /watch, and a query whose first v parameter is
\* Id1 (written out, or with its last character percent-encoded), alone or
\* with another parameter before or after it, or with a fragment after it.
WatchUrlsOfId1 ==
  { MakeInput(pad, scheme, host, PathWatch, query) :
      pad \in Paddings,
      scheme \in {SchemeHttps, SchemeHttp, SchemeUpper},
      host \in {HostWww, HostBare, HostMobile, HostMixedCase},
      query \in {QueryV, QueryVList, QueryListV, QueryVV, QueryVFragment,
                 QueryVEscaped} }

C8_ShortsExactlyEleven ==
  ( /\ pc = "called"
    /\ ~FullMatchId(Strip(input))
    /\ InputUrl.ok
    /\ EndsWith(LeadingWwwStripped(InputUrl.netloc), YoutubeCom)
    /\ WatchRule(InputUrl.path, InputUrl.query) = <<>>
    /\ ret.ok )
  => InputUrl.path \in {ShortsPrefix \o ret.id, LivePrefix \o ret.id}

\* C9 as stated: on an input that is no bare identifier and whose host does
\* not end with youtube.com, _extract_youtube_id returns an identifier only
\* if the host, lower-cased and with a leading "www." removed, is youtu.be.
C9_ShortLinkHostOnly ==
  ( /\ pc = "called"
    /\ ~FullMatchId(Strip(input))
    /\ InputUrl.ok
    /\ ~EndsWith(Lower(InputUrl.netloc), YoutubeCom)
    /\ ret.ok )
  => LeadingWwwStripped(InputUrl.netloc) = YoutuBe

\* C10: whatever _extract_youtube_id returns, through any rule, is eleven
\* characters of [A-Za-z0-9_-]; on every other input it raises one of its
\* two ValueErrors and returns nothing.
C10_ReturnedIdMatchesPattern ==
  pc = "called" =>
    IF ret.ok
    THEN /\ Len(ret.id) = 11
         /\ \A i \in 1..Len(ret.id) : ret.id[i] \in IdChars
         /\ ret.error = "none"
    ELSE /\ ret.id = <<>>
         /\ ret.error \in {ErrMalformedUrl, ErrNoIdentifier}

\* C10 witness: a shorts link with twelve identifier characters after the
\* prefix was called, and what it returned has eleven.
C10_Witness ==
  /\ pc = "called"
  /\ input = MakeInput(PadNone, SchemeHttps, HostWww, PathShorts12, QueryNone)
  /\ ret.ok
  /\ Len(ret.id) = 11

====
